---- MODULE Spec2Model ----
(***************************************************************************)
(* Model of synonymy-killer (src/main.py): a CLDF wordlist is reduced to   *)
(* one form per (language, meaning) pair, at random or by the greedy       *)
(* minimise/maximise-cognate-classes heuristic.                            *)
(*                                                                         *)
(* Identifiers are opaque in the program.  Here form IDs are the row       *)
(* numbers of the FormTable (CLDF IDs are unique), languages and meanings  *)
(* are numbered in order of first appearance, and cognate sets are the     *)
(* numbers 1..MaxClasses, whose order stands for Python's string order.    *)
(* The sentinel "?" of the program is the value QM.                        *)
(***************************************************************************)
EXTENDS Integers, Sequences, FiniteSets, TLC

\* ---------------------------------------------------------------- bounds
MaxForms == 3
MaxLangs == 2
MaxMeanings == 2
MaxClasses == 2

\* the string "?" (lines 94, 96, 106, 133); it sorts with count 0
QM == 0

Classes == 1..MaxClasses

VARIABLES
  FormTable,          \* dataset["FormTable"]: rows [ID, Language_ID, Parameter_ID]
  CognateTable,       \* dataset["CognateTable"]: rows [Form_ID, Cognateset_ID]
  langOrder,          \* enumeration order of the set `languages` in this process
  action,             \* the action main() selected
  pc,                 \* position in main() / the selected function
  languages, meanings, forms, cogmap,      \* parse_form_table's result
  forms_to_keep,
  cognates,           \* cognates[key] while it is a list (line 94)
  chosen,             \* cognates[key] once it is one class (lines 106-108, 122-126)
  cognate_class_counts,
  easy_langs, hard_langs,
  attested_cognates,
  meaning,            \* the loop variable of line 90
  todo,               \* meanings the loop of line 90 has not reached yet
  i,                  \* index of the running inner loop (lines 111, 129)
  draws,              \* keys for which random.sample was called (line 135)
  error,              \* the exception that ended the run, or "none"
  printed,            \* what report() printed
  result,             \* forms_to_keep as returned to main()
  NewFormTable, NewCognateTable,           \* what write_new_dataset wrote
  prev                \* the finished earlier run this run is compared with

vars == << FormTable, CognateTable, langOrder, action, pc, languages, meanings,
           forms, cogmap, forms_to_keep, cognates, chosen, cognate_class_counts,
           easy_langs, hard_langs, attested_cognates, meaning, todo, i, draws,
           error, printed, result, NewFormTable, NewCognateTable, prev >>

\* ------------------------------------------------------------- helpers
Range(s) == { s[k] : k \in 1..Len(s) }

EmptyMap == [x \in {} |-> 0]

MaxOf(S) == CHOOSE x \in S : \A y \in S : y <= x

\* the permutations of a finite set, as sequences
Perms(S) ==
  { p \in [1..Cardinality(S) -> S] : \A a, b \in 1..Cardinality(S) : p[a] = p[b] => a = b }

\* identifiers numbered in order of first appearance
FirstAppearance(f, n) ==
  \A k \in 1..n : f[k] <= 1 + MaxOf({0} \cup { f[j] : j \in 1..(k-1) })

\* dict.get(key, default)
dict_get(d, key, default) == IF key \in DOMAIN d THEN d[key] ELSE default

\* d[key] = value
dict_set(d, key, value) ==
  [x \in DOMAIN d \cup {key} |-> IF x = key THEN value ELSE d[x]]

\* --------------------------------------------------- parse_form_table
\* lines 24-31 for one row
add_form(p, form) ==
  LET key == << form.Language_ID, form.Parameter_ID >>
  IN  [languages |-> p.languages \cup {form.Language_ID},
       meanings  |-> p.meanings \cup {form.Parameter_ID},
       forms     |-> dict_set(p.forms, key, Append(dict_get(p.forms, key, << >>), form.ID))]

RECURSIVE scan_form_table(_, _)
\* the state of lines 18-20 after the first k rows of the loop of line 23
scan_form_table(ft, k) ==
  IF k = 0
  THEN [languages |-> {}, meanings |-> {}, forms |-> EmptyMap]
  ELSE add_form(scan_form_table(ft, k - 1), ft[k])

RECURSIVE scan_cognate_table(_, _)
\* cognate_map after the first k rows of the loop of line 33 (last write wins)
scan_cognate_table(ct, k) ==
  IF k = 0
  THEN EmptyMap
  ELSE dict_set(scan_cognate_table(ct, k - 1), ct[k].Form_ID, ct[k].Cognateset_ID)

parse_form_table(ft, ct) ==
  LET p == scan_form_table(ft, Len(ft))
  IN  [languages |-> p.languages, meanings |-> p.meanings, forms |-> p.forms,
       cogmap |-> scan_cognate_table(ct, Len(ct))]

\* ------------------------------------------------------------- report
RECURSIVE shift_up(_, _)
\* the least s with n * 2^s >= d, for 1 <= n < d
shift_up(n, d) == IF n >= d THEN 0 ELSE 1 + shift_up(2 * n, d)

RECURSIVE shift_down(_, _)
\* the greatest s with d * 2^s <= n, for n >= d
shift_down(n, d) == IF 2 * d > n THEN 0 ELSE 1 + shift_down(n, 2 * d)

RECURSIVE double_mod(_, _, _)
\* (r * 2^k) % d
double_mod(r, d, k) == IF k = 0 THEN r ELSE double_mod((2 * r) % d, d, k - 1)

\* line 50: n / d is the double nearest to the quotient (53-bit significand);
\* the sign of (that double - the exact quotient), for n >= 1.  The remainder
\* is never exactly half of d for quotients of machine integers.
true_div_error(n, d) ==
  LET e   == IF n >= d THEN 52 - shift_down(n, d) ELSE 52 + shift_up(n, d)
      rem == double_mod(n % d, d, e)
  IN  IF rem = 0 THEN 0 ELSE IF 2 * rem < d THEN -1 ELSE 1

\* line 55: '{:.4f}'.format(n / d), as a number of ten-thousandths.  The
\* format rounds the stored double correctly: to nearest, and a double lying
\* exactly halfway goes to the even neighbour.
format_ratio(n, d) ==
  LET q == (10000 * n) \div d
      r == (10000 * n) % d
      s == true_div_error(n, d)
  IN  IF 2 * r < d THEN q
      ELSE IF 2 * r > d THEN q + 1
      ELSE IF s < 0 THEN q
      ELSE IF s > 0 THEN q + 1
      ELSE IF q % 2 = 0 THEN q ELSE q + 1

\* report() with the two failing lines in the order they are not executed in
report_ratio_first(p) ==
  LET lens    == [k \in DOMAIN p.forms |-> Len(p.forms[k])]
      n_langs == Cardinality(p.languages)
      n_means == Cardinality(p.meanings)
      n_forms == Cardinality(UNION { {<<k, j>> : j \in 1..lens[k]} : k \in DOMAIN lens })
  IN  IF n_langs * n_means = 0
      THEN [error |-> "ZeroDivisionError", printed |-> << >>]
      ELSE IF DOMAIN lens = {}
      THEN [error |-> "ValueError", printed |-> << >>]
      ELSE [error |-> "none",
            printed |-> << n_langs, n_means, n_forms,
                           format_ratio(n_forms, n_langs * n_means),
                           MaxOf({ lens[k] : k \in DOMAIN lens }) >>]

\* report(), lines 46-56: the statistics printed, or the exception raised
report_stats(p) ==
  LET lens    == [k \in DOMAIN p.forms |-> Len(p.forms[k])]
      n_langs == Cardinality(p.languages)
      n_means == Cardinality(p.meanings)
      n_forms == Cardinality(UNION { {<<k, j>> : j \in 1..lens[k]} : k \in DOMAIN lens })
  IN  IF DOMAIN lens = {}
      THEN [error |-> "ValueError", printed |-> << >>]          \* max() of nothing, line 49
      ELSE IF n_langs * n_means = 0
      THEN [error |-> "ZeroDivisionError", printed |-> << >>]   \* line 50
      ELSE [error |-> "none",
            printed |-> << n_langs, n_means, n_forms,
                           format_ratio(n_forms, n_langs * n_means),
                           MaxOf({ lens[k] : k \in DOMAIN lens }) >>]

\* --------------------------------------------------- write_new_dataset
RECURSIVE filter_rows(_, _, _, _)
\* [row for row in rows[1..k] if row[field] in keep], in order
filter_rows(rows, field, keep, k) ==
  IF k = 0 THEN << >>
  ELSE LET rest == filter_rows(rows, field, keep, k - 1)
       IN  IF rows[k][field] \in keep THEN Append(rest, rows[k]) ELSE rest

\* the FormTable comprehension without its condition
kept_forms_unfiltered(ft, keep) == ft

\* line 65
kept_forms(ft, keep) == filter_rows(ft, "ID", keep, Len(ft))

\* line 66
kept_cognates(ct, keep) == filter_rows(ct, "Form_ID", keep, Len(ct))

\* ---------------------------------------- _kill_minimax_cognates: pieces
\* line 94: [cogmap.get(f, "?") for f in forms.get(key, "?")]; iterating the
\* default "?" yields the one character "?", which is looked up in the cognate
\* map like a form ID (and is found there only if a form is named "?")
class_list(fs, cm, key) ==
  IF key \in DOMAIN fs
  THEN [j \in 1..Len(fs[key]) |-> dict_get(cm, fs[key][j], QM)]
  ELSE << dict_get(cm, QM, QM) >>

\* a Counter with no key counted yet (a missing key reads as 0)
Counter == [c \in {QM} \cup Classes |-> 0]

\* a tally that counts a class once per language
count_list_once(cnt, list, k) ==
  [c \in DOMAIN cnt |->
     IF c # QM /\ c \in { list[j] : j \in 1..k } THEN cnt[c] + 1 ELSE cnt[c]]

RECURSIVE count_list(_, _, _)
\* lines 95-97 over the first k classes of one language's list
count_list(cnt, list, k) ==
  IF k = 0 THEN cnt
  ELSE LET c0 == count_list(cnt, list, k - 1)
       IN  IF list[k] # QM THEN [c0 EXCEPT ![list[k]] = @ + 1] ELSE c0

RECURSIVE count_langs(_, _, _, _, _)
\* lines 91-97 over the first k languages of the enumeration order
count_langs(order, fs, cm, m, k) ==
  IF k = 0 THEN Counter
  ELSE LET list == class_list(fs, cm, << order[k], m >>)
       IN  count_list(count_langs(order, fs, cm, m, k - 1), list, Len(list))

RECURSIVE select_langs(_, _, _, _, _)
\* lines 99-100: the languages among the first k whose list is short (easy) or not
select_langs(order, cogs, m, easy, k) ==
  IF k = 0 THEN << >>
  ELSE LET rest == select_langs(order, cogs, m, easy, k - 1)
       IN  IF (Len(cogs[<< order[k], m >>]) < 2) = easy
           THEN Append(rest, order[k]) ELSE rest

RECURSIVE easy_assign(_, _, _, _, _)
\* lines 102-109 over the first k easy languages: the classes assigned and attested
easy_assign(easy, cogs, ch, m, k) ==
  IF k = 0 THEN [chosen |-> ch, attested |-> {}]
  ELSE LET p   == easy_assign(easy, cogs, ch, m, k - 1)
           key == << easy[k], m >>
       IN  IF Len(cogs[key]) = 0
           THEN [chosen |-> dict_set(p.chosen, key, QM), attested |-> p.attested]
           ELSE IF Len(cogs[key]) = 1
           THEN [chosen   |-> dict_set(p.chosen, key, cogs[key][1]),
                 attested |-> p.attested \cup {cogs[key][1]}]
           ELSE p

\* Python's order on the tuples (count, class)
tuple_lt(a, b) == a[1] < b[1] \/ (a[1] = b[1] /\ a[2] < b[2])

insert_sorted(x, s) ==
  LET n == Cardinality({ j \in 1..Len(s) : ~tuple_lt(x, s[j]) })
  IN  SubSeq(s, 1, n) \o << x >> \o SubSeq(s, n + 1, Len(s))

RECURSIVE sort_asc(_, _)
sort_asc(s, k) == IF k = 0 THEN << >> ELSE insert_sorted(s[k], sort_asc(s, k - 1))

reversed(s) == [j \in 1..Len(s) |-> s[Len(s) + 1 - j]]

\* line 116: options.sort(reverse = ...)
sort_options(options, reverse) ==
  IF reverse THEN reversed(sort_asc(options, Len(options)))
  ELSE sort_asc(options, Len(options))

\* the test of line 121 with the two modes exchanged
prefers_swapped(mode, c, attested) ==
  (mode = "max" /\ c \in attested) \/ (mode = "min" /\ c \notin attested)

\* line 121
prefers(mode, c, attested) ==
  (mode = "min" /\ c \in attested) \/ (mode = "max" /\ c \notin attested)

RECURSIVE scan_options(_, _, _, _)
\* lines 120-126 from option k on: the first preferred class, else options[0][1]
scan_options(options, mode, attested, k) ==
  IF k > Len(options) THEN options[1][2]
  ELSE IF prefers(mode, options[k][2], attested) THEN options[k][2]
  ELSE scan_options(options, mode, attested, k + 1)

\* lines 113-126: the class assigned to a hard language
hard_choice(list, counts, mode, attested) ==
  LET options == [j \in 1..Len(list) |-> << counts[list[j]], list[j] >>]
  IN  scan_options(sort_options(options, mode = "min"), mode, attested, 1)

RECURSIVE first_of_class(_, _, _, _)
\* lines 138-141 from candidate k on; cogmap[f] raises KeyError for a form
\* without a cognate row
first_of_class(list, cm, c, k) ==
  IF k > Len(list) THEN [kind |-> "none", f |-> 0]
  ELSE IF list[k] \notin DOMAIN cm THEN [kind |-> "KeyError", f |-> 0]
  ELSE IF cm[list[k]] = c THEN [kind |-> "found", f |-> list[k]]
  ELSE first_of_class(list, cm, c, k + 1)

\* any form of the assigned class instead of the first one
survivors_any(list, cm, c) ==
  IF c = QM THEN Range(list)
  ELSE { f \in Range(list) : dict_get(cm, f, QM) = c }

\* lines 133-141: the forms the run may keep for one key
survivors(list, cm, c) ==
  IF c = QM THEN Range(list)                        \* random.sample, line 135
  ELSE LET r == first_of_class(list, cm, c, 1)
       IN  IF r.kind = "found" THEN {r.f} ELSE {}

\* line 139 raises for this key
raises_KeyError(list, cm, c) ==
  c # QM /\ first_of_class(list, cm, c, 1).kind = "KeyError"

RECURSIVE random_picks(_, _)
\* lines 74-77 over the candidate lists of `keys`: the sets the loop can build
random_picks(fs, keys) ==
  IF keys = {} THEN { {} }
  ELSE LET key == CHOOSE k \in keys : TRUE
       IN  { keep \cup {survivor} :
               keep \in random_picks(fs, keys \ {key}), survivor \in Range(fs[key]) }

\* ------------------------------------------------------------ the runs
Kills == {"random", "min", "max"}

NoPrev ==
  [valid |-> FALSE, action |-> "none", error |-> "none", result |-> {},
   chosen |-> EmptyMap, draws |-> {}, forms |-> EmptyMap, langOrder |-> << >>]

RECURSIVE cognate_rows(_, _)
\* a CognateTable with one row, in form order, for each classified form among 1..k
cognate_rows(cls, k) ==
  IF k = 0 THEN << >>
  ELSE IF cls[k] = QM THEN cognate_rows(cls, k - 1)
  ELSE Append(cognate_rows(cls, k - 1), [Form_ID |-> k, Cognateset_ID |-> cls[k]])

\* the locals of a run before main() has called anything
Fresh ==
  /\ action = "none"
  /\ pc = "main"
  /\ languages = {} /\ meanings = {} /\ forms = EmptyMap /\ cogmap = EmptyMap
  /\ forms_to_keep = {}
  /\ cognates = EmptyMap /\ chosen = EmptyMap
  /\ cognate_class_counts = Counter
  /\ easy_langs = << >> /\ hard_langs = << >>
  /\ attested_cognates = {}
  /\ meaning = 0 /\ todo = {} /\ i = 0
  /\ draws = {}
  /\ error = "none" /\ printed = << >> /\ result = {}
  /\ NewFormTable = << >> /\ NewCognateTable = << >>

\* Wordlist.from_metadata (line 162): any dataset within the bounds
Init ==
  /\ \E n \in 0..MaxForms :
       \E lng \in [1..n -> 1..MaxLangs], mng \in [1..n -> 1..MaxMeanings],
          cls \in [1..n -> {QM} \cup Classes] :
         /\ FirstAppearance(lng, n)
         /\ FirstAppearance(mng, n)
         /\ FormTable = [k \in 1..n |->
                           [ID |-> k, Language_ID |-> lng[k], Parameter_ID |-> mng[k]]]
         /\ CognateTable = cognate_rows(cls, n)
  /\ langOrder \in Perms(parse_form_table(FormTable, CognateTable).languages)
  /\ Fresh
  /\ prev = NoPrev

Parsed == parse_form_table(FormTable, CognateTable)

UnchangedData == UNCHANGED << FormTable, CognateTable, langOrder, prev >>

UnchangedMinimax ==
  UNCHANGED << cognates, chosen, cognate_class_counts, easy_langs, hard_langs,
               attested_cognates, meaning, todo, i >>

\* main() with --report or no flag: report(), lines 40-56
Report ==
  /\ pc = "main"
  /\ action' = "report"
  /\ languages' = Parsed.languages /\ meanings' = Parsed.meanings
  /\ forms' = Parsed.forms /\ cogmap' = Parsed.cogmap
  /\ error' = report_stats(Parsed).error
  /\ printed' = report_stats(Parsed).printed
  /\ pc' = "exit"
  /\ UNCHANGED << forms_to_keep, draws, result, NewFormTable, NewCognateTable >>
  /\ UnchangedMinimax /\ UnchangedData

\* main() with --random: kill_random(), lines 69-78
KillRandom ==
  /\ pc = "main"
  /\ action' = "random"
  /\ languages' = Parsed.languages /\ meanings' = Parsed.meanings
  /\ forms' = Parsed.forms /\ cogmap' = Parsed.cogmap
  /\ \E keep \in random_picks(Parsed.forms, DOMAIN Parsed.forms) : forms_to_keep' = keep
  /\ draws' = DOMAIN Parsed.forms
  /\ result' = forms_to_keep'
  /\ pc' = "write"
  /\ UNCHANGED << error, printed, NewFormTable, NewCognateTable >>
  /\ UnchangedMinimax /\ UnchangedData

\* main() with --mincog or --maxcog: _kill_minimax_cognates, lines 87-89
BeginMinimax ==
  /\ pc = "main"
  /\ \E mode \in {"min", "max"} : action' = mode
  /\ languages' = Parsed.languages /\ meanings' = Parsed.meanings
  /\ forms' = Parsed.forms /\ cogmap' = Parsed.cogmap
  /\ forms_to_keep' = {}
  /\ cognates' = EmptyMap
  /\ todo' = Parsed.meanings
  /\ pc' = "meanings"
  /\ UNCHANGED << chosen, cognate_class_counts, easy_langs, hard_langs,
                  attested_cognates, meaning, i, draws, error, printed, result,
                  NewFormTable, NewCognateTable >>
  /\ UnchangedData

\* lines 90-100 for the next meaning: the class lists, the counts, the partition
ClassCountPass ==
  /\ pc = "meanings"
  /\ \E m \in todo :
       LET cogs == [key \in DOMAIN cognates \cup { << l, m >> : l \in languages } |->
                      IF key[2] = m THEN class_list(forms, cogmap, key) ELSE cognates[key]]
       IN  /\ meaning' = m
           /\ todo' = todo \ {m}
           /\ cognates' = cogs
           /\ cognate_class_counts' = count_langs(langOrder, forms, cogmap, m, Len(langOrder))
           /\ easy_langs' = select_langs(langOrder, cogs, m, TRUE, Len(langOrder))
           /\ hard_langs' = select_langs(langOrder, cogs, m, FALSE, Len(langOrder))
  /\ pc' = "easy"
  /\ UNCHANGED << action, languages, meanings, forms, cogmap, forms_to_keep, chosen,
                  attested_cognates, i, draws, error, printed, result,
                  NewFormTable, NewCognateTable >>
  /\ UnchangedData

\* lines 102-109: the easy assignments
EasyAssign ==
  /\ pc = "easy"
  /\ LET p == easy_assign(easy_langs, cognates, chosen, meaning, Len(easy_langs))
     IN  /\ chosen' = p.chosen
         /\ attested_cognates' = p.attested
  /\ i' = 1
  /\ pc' = IF hard_langs = << >> THEN "resolve" ELSE "hard"
  /\ UNCHANGED << action, languages, meanings, forms, cogmap, forms_to_keep, cognates,
                  cognate_class_counts, easy_langs, hard_langs, meaning, todo, draws,
                  error, printed, result, NewFormTable, NewCognateTable >>
  /\ UnchangedData

\* lines 111-127 for one hard language
HardAssign ==
  /\ pc = "hard"
  /\ LET key == << hard_langs[i], meaning >>
         c   == hard_choice(cognates[key], cognate_class_counts, action, attested_cognates)
     IN  /\ chosen' = dict_set(chosen, key, c)
         /\ attested_cognates' = attested_cognates \cup {c}
  /\ IF i = Len(hard_langs) THEN pc' = "resolve" /\ i' = 1
     ELSE pc' = "hard" /\ i' = i + 1
  /\ UNCHANGED << action, languages, meanings, forms, cogmap, forms_to_keep, cognates,
                  cognate_class_counts, easy_langs, hard_langs, meaning, todo, draws,
                  error, printed, result, NewFormTable, NewCognateTable >>
  /\ UnchangedData

\* lines 129-141 for one language
Resolve ==
  /\ pc = "resolve"
  /\ LET key == << langOrder[i], meaning >>
     IN  IF key \notin DOMAIN forms
         THEN /\ pc' = IF i = Len(langOrder) THEN "meanings" ELSE "resolve"
              /\ UNCHANGED << forms_to_keep, draws, error >>
         ELSE IF raises_KeyError(forms[key], cogmap, chosen[key])
         THEN /\ error' = "KeyError"
              /\ pc' = "exit"
              /\ UNCHANGED << forms_to_keep, draws >>
         ELSE /\ \/ \E survivor \in survivors(forms[key], cogmap, chosen[key]) :
                      forms_to_keep' = forms_to_keep \cup {survivor}
                 \/ /\ survivors(forms[key], cogmap, chosen[key]) = {}
                    /\ forms_to_keep' = forms_to_keep
              /\ draws' = IF chosen[key] = QM THEN draws \cup {key} ELSE draws
              /\ pc' = IF i = Len(langOrder) THEN "meanings" ELSE "resolve"
              /\ error' = error
  /\ i' = i + 1
  /\ UNCHANGED << action, languages, meanings, forms, cogmap, cognates, chosen,
                  cognate_class_counts, easy_langs, hard_langs, attested_cognates,
                  meaning, todo, printed, result, NewFormTable, NewCognateTable >>
  /\ UnchangedData

\* line 143
Return ==
  /\ pc = "meanings"
  /\ todo = {}
  /\ result' = forms_to_keep
  /\ pc' = "write"
  /\ UNCHANGED << action, languages, meanings, forms, cogmap, forms_to_keep, draws,
                  error, printed, NewFormTable, NewCognateTable >>
  /\ UnchangedMinimax /\ UnchangedData

\* line 180: write_new_dataset, lines 58-67
WriteNewDataset ==
  /\ pc = "write"
  /\ NewFormTable' = kept_forms(FormTable, result)
  /\ NewCognateTable' = kept_cognates(CognateTable, result)
  /\ pc' = "exit"
  /\ UNCHANGED << action, languages, meanings, forms, cogmap, forms_to_keep, draws,
                  error, printed, result >>
  /\ UnchangedMinimax /\ UnchangedData

Next ==
  \/ Report
  \/ KillRandom
  \/ BeginMinimax
  \/ ClassCountPass
  \/ EasyAssign
  \/ HardAssign
  \/ Resolve
  \/ Return
  \/ WriteNewDataset

Spec == Init /\ [][Next]_vars

\* a new process: the locals are those of Fresh again
StartOver ==
  /\ action' = "none"
  /\ pc' = "main"
  /\ languages' = {} /\ meanings' = {} /\ forms' = EmptyMap /\ cogmap' = EmptyMap
  /\ forms_to_keep' = {}
  /\ cognates' = EmptyMap /\ chosen' = EmptyMap
  /\ cognate_class_counts' = Counter
  /\ easy_langs' = << >> /\ hard_langs' = << >>
  /\ attested_cognates' = {}
  /\ meaning' = 0 /\ todo' = {} /\ i' = 0
  /\ draws' = {}
  /\ error' = "none" /\ printed' = << >> /\ result' = {}
  /\ NewFormTable' = << >> /\ NewCognateTable' = << >>

\* what is remembered of a finished run
Finished ==
  [valid |-> TRUE, action |-> action, error |-> error, result |-> result,
   chosen |-> chosen, draws |-> draws, forms |-> forms, langOrder |-> langOrder]

\* a second run of the program on the same dataset, with the same enumeration
\* order of the languages
Rerun ==
  /\ pc = "exit"
  /\ action \in {"min", "max"}
  /\ ~prev.valid
  /\ prev' = Finished
  /\ StartOver
  /\ UNCHANGED << FormTable, CognateTable, langOrder >>

NextRerun == Next \/ Rerun

SpecRerun == Init /\ [][NextRerun]_vars

\* a second run of the program on the dataset the first run wrote
Reload ==
  /\ pc = "exit"
  /\ action \in Kills
  /\ error = "none"
  /\ ~prev.valid
  /\ prev' = Finished
  /\ FormTable' = NewFormTable
  /\ CognateTable' = NewCognateTable
  /\ langOrder' \in Perms(parse_form_table(NewFormTable, NewCognateTable).languages)
  /\ StartOver

NextRefilter == Next \/ Reload

SpecRefilter == Init /\ [][NextRefilter]_vars

\* a run after which the dataset grows by one form of another meaning, so that
\* the two runs agree on every record of the meanings the first run saw
Extend ==
  /\ pc = "exit"
  /\ action \in {"min", "max"}
  /\ ~prev.valid
  /\ Len(FormTable) < MaxForms
  /\ prev' = Finished
  /\ \E l \in 1..MaxLangs, m \in 1..MaxMeanings, c \in {QM} \cup Classes,
        at \in 1..(Len(langOrder) + 1) :
       /\ l \in languages \/ l = Cardinality(languages) + 1
       /\ m = Cardinality(meanings) + 1
       /\ FormTable' = Append(FormTable,
             [ID |-> Len(FormTable) + 1, Language_ID |-> l, Parameter_ID |-> m])
       /\ CognateTable' =
             IF c = QM THEN CognateTable
             ELSE Append(CognateTable, [Form_ID |-> Len(FormTable) + 1, Cognateset_ID |-> c])
       /\ IF l \in languages
          THEN at = 1 /\ langOrder' = langOrder
          ELSE langOrder' = SubSeq(langOrder, 1, at - 1) \o << l >>
                              \o SubSeq(langOrder, at, Len(langOrder))
  /\ StartOver

NextExtend == Next \/ Extend

SpecExtend == Init /\ [][NextExtend]_vars

\* ------------------------------------------------- the dataset, as given
\* The claims are stated over the rows of the two tables, not over what the
\* program derived from them.
KeysOf(ft) == { << ft[k].Language_ID, ft[k].Parameter_ID >> : k \in 1..Len(ft) }

CandidatesOf(ft, key) ==
  { ft[k].ID : k \in { j \in 1..Len(ft) : << ft[j].Language_ID, ft[j].Parameter_ID >> = key } }

ClassOf(ct, f) ==
  LET rows == { k \in 1..Len(ct) : ct[k].Form_ID = f }
  IN  IF rows = {} THEN QM ELSE ct[MaxOf(rows)].Cognateset_ID

MeaningOf(ft, f) == ft[CHOOSE k \in 1..Len(ft) : ft[k].ID = f].Parameter_ID

\* the real cognate classes among the forms of `keep` that express meaning m
ClassesKept(keep, m) ==
  { ClassOf(CognateTable, f) : f \in { g \in keep : MeaningOf(FormTable, g) = m } } \ {QM}

\* the languages with two or more candidates for meaning m
HardKeys(ft, m) == { key \in KeysOf(ft) : key[2] = m /\ Cardinality(CandidatesOf(ft, key)) >= 2 }

\* the real classes of the languages with exactly one candidate for meaning m
EasyClasses(m) ==
  { ClassOf(CognateTable, f) :
      f \in UNION { CandidatesOf(FormTable, key) :
                      key \in { e \in KeysOf(FormTable) :
                                  e[2] = m /\ Cardinality(CandidatesOf(FormTable, e)) = 1 } } }
    \ {QM}

KillDone == pc = "exit" /\ action \in Kills

KeysOfMeanings == { key[2] : key \in KeysOf(FormTable) }

\* ---------------------------------------------------------------- claims

\* C1 (as claimed): when a reduction strategy has ended, it has returned a
\* survivor set that holds exactly one candidate of every (language, meaning)
\* key that has a form record.
C1_Coverage ==
  KillDone =>
    /\ error = "none"
    /\ \A key \in KeysOf(FormTable) :
         Cardinality(result \cap CandidatesOf(FormTable, key)) = 1

\* C2 (as claimed): the minimise/maximise strategy never ends in an error.
C2_NoError == action \in {"min", "max"} => error = "none"

\* a finished minimise run and a finished maximise run of the same dataset, with
\* the same enumeration order of the languages
MinMaxPair ==
  /\ prev.valid /\ pc = "exit"
  /\ { prev.action, action } = {"min", "max"}

MinResult == IF action = "min" THEN result ELSE prev.result

MaxResult == IF action = "max" THEN result ELSE prev.result

\* at most one language has several candidates for m, and all of them are classified
OneClassifiedHardLang(m) ==
  /\ Cardinality(HardKeys(FormTable, m)) <= 1
  /\ \A key \in HardKeys(FormTable, m) :
       \A f \in CandidatesOf(FormTable, key) : ClassOf(CognateTable, f) # QM

\* C3 (as claimed): for every meaning, the minimise survivors attest no more
\* real cognate classes than the maximise survivors of the same dataset.
C3_MinLeMax ==
  (MinMaxPair /\ error = "none" /\ prev.error = "none") =>
    \A m \in meanings :
      Cardinality(ClassesKept(MinResult, m)) <= Cardinality(ClassesKept(MaxResult, m))

\* C3 (amended): on a dataset in which every meaning has at most one language
\* with two or more candidates, and the candidates of that language all have a
\* cognate assignment, both modes return and, for every meaning, the minimise
\* survivors attest no more real cognate classes than the maximise survivors.
C3_MinLeMaxOneHard ==
  (MinMaxPair /\ \A m \in KeysOfMeanings : OneClassifiedHardLang(m)) =>
    /\ error = "none" /\ prev.error = "none"
    /\ \A m \in KeysOfMeanings :
         Cardinality(ClassesKept(MinResult, m)) <= Cardinality(ClassesKept(MaxResult, m))

\* C3 witness: such a pair of runs where the one hard language made the two
\* modes differ: minimise attests fewer classes than maximise.
C3_Witness ==
  /\ MinMaxPair /\ error = "none" /\ prev.error = "none"
  /\ \A m \in KeysOfMeanings : OneClassifiedHardLang(m)
  /\ \E m \in KeysOfMeanings :
       /\ HardKeys(FormTable, m) # {}
       /\ Cardinality(ClassesKept(MinResult, m)) < Cardinality(ClassesKept(MaxResult, m))

\* C4: a strategy run on the dataset its first run wrote returns the first
\* run's survivor set again; and on any dataset in which every key has at most
\* one candidate, every strategy returns the set of all form ids.
C4_Refilter ==
  /\ (KillDone /\ prev.valid /\ action = prev.action) =>
        (error = "none" /\ result = prev.result)
  /\ (KillDone /\ \A key \in KeysOf(FormTable) :
                     Cardinality(CandidatesOf(FormTable, key)) = 1) =>
        (error = "none" /\ result = { FormTable[k].ID : k \in 1..Len(FormTable) })

\* C4 witness: a minimise run on the written dataset has ended, the first run
\* removed a synonym, and the survivors mix classified and unclassified forms.
C4_Witness ==
  /\ KillDone /\ prev.valid /\ action = "min" /\ prev.action = "min"
  /\ \E key \in DOMAIN prev.forms : Len(prev.forms[key]) >= 2
  /\ \E f, g \in result : ClassOf(CognateTable, f) = QM /\ ClassOf(CognateTable, g) # QM

\* no language with candidates was assigned the sentinel
NoSentinel(ch, fs) == \A key \in DOMAIN ch \cap DOMAIN fs : ch[key] # QM

\* C5: two minimise (or two maximise) runs of the same dataset with the same
\* enumeration order, in neither of which a language with candidates was
\* assigned the sentinel, make no random draw and end alike: the same
\* survivor set, or the same error.
C5_Deterministic ==
  ( /\ prev.valid /\ pc = "exit"
    /\ action \in {"min", "max"} /\ action = prev.action
    /\ NoSentinel(chosen, forms) /\ NoSentinel(prev.chosen, prev.forms) ) =>
    /\ draws = {} /\ prev.draws = {}
    /\ error = prev.error
    /\ result = prev.result

\* C5 witness: two such runs that returned, on a dataset with a hard language.
C5_Witness ==
  /\ prev.valid /\ pc = "exit"
  /\ action \in {"min", "max"} /\ action = prev.action
  /\ NoSentinel(chosen, forms) /\ NoSentinel(prev.chosen, prev.forms)
  /\ error = "none" /\ result # {}
  /\ \E m \in meanings : HardKeys(FormTable, m) # {}

\* the key of the j-th hard language of the current meaning
HardKey(j) == << hard_langs[j], meaning >>

\* the attested set as it was when the j-th hard language was processed: what the
\* easy step attested, and the classes assigned to the hard languages before it
AttestedBefore(j) ==
  { chosen[<< easy_langs[k], meaning >>] :
      k \in { e \in 1..Len(easy_langs) : Len(cognates[<< easy_langs[e], meaning >>]) = 1 } }
  \cup { chosen[HardKey(k)] : k \in 1..(j - 1) }

\* the hard languages of the current meaning that have been assigned a class
HardDone == IF pc = "hard" THEN 1..(i - 1)
            ELSE IF pc = "resolve" THEN 1..Len(hard_langs) ELSE {}

\* the assignment of the j-th hard language follows the rule: among the classes
\* that qualify (attested for minimise, not attested for maximise), or among all
\* its classes when none qualifies, one whose count is largest (minimise) or
\* smallest (maximise)
FollowsRule(j) ==
  LET opts  == Range(cognates[HardKey(j)])
      seen  == AttestedBefore(j)
      good  == { c \in opts : IF action = "min" THEN c \in seen ELSE c \notin seen }
      pool  == IF good # {} THEN good ELSE opts
      c     == chosen[HardKey(j)]
  IN  /\ c \in pool
      /\ \A d \in pool : IF action = "min"
                         THEN cognate_class_counts[d] <= cognate_class_counts[c]
                         ELSE cognate_class_counts[c] <= cognate_class_counts[d]
      /\ (action = "min" /\ (opts \cap seen) \ {QM} # {}) => (c \in seen /\ c # QM)

\* C6, the assignment alone: every hard language is assigned by the rule, and
\* the attested set then holds what was attested before and the assigned class.
C6_AssignmentRule ==
  /\ \A j \in HardDone : FollowsRule(j)
  /\ (HardDone # {} /\ (pc = "hard" \/ i = 1)) =>
        attested_cognates = AttestedBefore(MaxOf(HardDone) + 1)

\* C6 (as claimed): the assignment rule, and in minimise mode a hard language
\* with a candidate in a real class that the easy languages attest is assigned
\* a real class and its survivor is a form of the assigned class.
C6_HardAssignment ==
  /\ C6_AssignmentRule
  /\ (pc = "exit" /\ action = "min") =>
       \A m \in KeysOfMeanings : \A key \in HardKeys(FormTable, m) :
         (\E f \in CandidatesOf(FormTable, key) : ClassOf(CognateTable, f) \in EasyClasses(m)) =>
           /\ key \in DOMAIN chosen
           /\ chosen[key] # QM
           /\ \E g \in result \cap CandidatesOf(FormTable, key) :
                ClassOf(CognateTable, g) = chosen[key]

\* the easy step of the current meaning has just run
AfterEasy == i = 1 /\ (pc = "hard" \/ (pc = "resolve" /\ hard_langs = << >>))

\* C7 (as claimed): the easy step attests exactly the real classes of the
\* languages with one candidate; and in minimise mode a first hard language whose
\* two candidates are an unclassified form and a form of a class A that the easy
\* step did not attest is assigned A.
C7_EasyAttestsRealOnly ==
  /\ AfterEasy => attested_cognates = EasyClasses(meaning)
  /\ (pc = "resolve" /\ action = "min" /\ hard_langs # << >>) =>
       LET list == cognates[HardKey(1)]
       IN  \A A \in Classes :
             (Len(list) = 2 /\ Range(list) = {QM, A} /\ A \notin EasyClasses(meaning))
               => chosen[HardKey(1)] = A

\* the counts of the current meaning are in cognate_class_counts
Counted == pc \in {"easy", "hard", "resolve"}

FormsOfClass(m, c) ==
  { k \in 1..Len(FormTable) :
      FormTable[k].Parameter_ID = m /\ ClassOf(CognateTable, FormTable[k].ID) = c }

\* C8 (as claimed): the count of a real class is the number of languages with
\* at least one candidate of that class for the meaning.
C8_CountsLanguages ==
  Counted =>
    \A c \in Classes :
      cognate_class_counts[c] =
        Cardinality({ FormTable[k].Language_ID : k \in FormsOfClass(meaning, c) })

\* C8 (amended): the count of a real class is the number of candidate forms of
\* that class for the meaning, over all languages (a language with several
\* candidates in the class counts once per candidate); forms without a
\* cognate assignment increase no count.
C8_CountsForms ==
  Counted =>
    /\ \A c \in Classes :
         cognate_class_counts[c] = Cardinality(FormsOfClass(meaning, c))
    /\ cognate_class_counts[QM] = 0

\* C8 witness: the counts of a meaning for which one language has two candidates
\* in one class, and some candidate is unclassified.
C8_Witness ==
  /\ Counted
  /\ \E c \in Classes :
       /\ cognate_class_counts[c] >= 2
       /\ Cardinality({ FormTable[k].Language_ID : k \in FormsOfClass(meaning, c) }) = 1
  /\ FormsOfClass(meaning, QM) # {}

\* C9 (as claimed): two runs in the same mode on datasets that differ only in
\* a form of another meaning leave every key of the shared meanings the same
\* possible survivors.
C9_PerMeaning ==
  ( /\ prev.valid /\ pc = "exit"
    /\ action \in {"min", "max"} /\ action = prev.action
    /\ error = "none" /\ prev.error = "none" ) =>
    \A key \in DOMAIN prev.forms :
      survivors(forms[key], cogmap, chosen[key])
        = survivors(prev.forms[key], cogmap, prev.chosen[key])

ReportDone == pc = "exit" /\ action = "report"

\* C10 (as claimed): report on a dataset without form records ends in the
\* division by zero of the ratio, with nothing printed.
C10_ZeroDivision ==
  (ReportDone /\ Len(FormTable) = 0) =>
    (error = "ZeroDivisionError" /\ printed = << >>)

\* C10 (amended): report on a dataset without form records ends in the
\* ValueError of max() over no candidate lists (line 49), before the ratio is
\* computed and with nothing printed; the division by zero is never reached,
\* and report on a dataset with a form record raises nothing.
C10_ValueError ==
  ReportDone =>
    /\ error # "ZeroDivisionError"
    /\ (Len(FormTable) = 0) => (error = "ValueError" /\ printed = << >>)
    /\ (Len(FormTable) # 0) => (error = "none" /\ printed # << >>)

\* C10 witness: report has ended on the dataset without form records.
C10_Witness == ReportDone /\ Len(FormTable) = 0 /\ error = "ValueError"

====
